---- MODULE Spec2Model ----
(***************************************************************************)
(* Model of src/main.rs: the `json` subcommand (handle_project_json) and   *)
(* the `cargo` subcommand (handle_cargo).                                  *)
(* A rust-project.json document is read and deserialized (or cargo         *)
(* metadata is queried), every crate (or target) is resolved to a          *)
(* (name, parent of the root file) pair, the pairs are bridged onto a      *)
(* rayon pool (par_bridge), each worker walks the directory of the pair it *)
(* pulled and reads every regular file, and the (name, Result) pairs are   *)
(* collected into an FxHashMap.                                            *)
(*                                                                         *)
(* Encodings.  Option<T> is a sequence of length 0 (None) or 1 (Some).     *)
(* A path is the sequence of its components, "/" being the root component: *)
(* /ws/a/lib.rs is <<"/", "ws", "a", "lib.rs">>.  Result<T, io::Error> is  *)
(* a record [tag, val, err].                                               *)
(***************************************************************************)
EXTENDS Integers, Sequences, FiniteSets, TLC

\* Longest crate list of a document.
MaxCrates == 2
\* Threads of the rayon pool (available parallelism).
NumThreads == 2

Threads == 1..NumThreads

None == <<>>
Some(x) == <<x>>

Ok(v) == [tag |-> "Ok", val |-> v, err |-> ""]
Err(e) == [tag |-> "Err", val |-> <<>>, err |-> e]
ReadOk(s) == [tag |-> "Ok", val |-> s, err |-> ""]
ReadErr(e) == [tag |-> "Err", val |-> "", err |-> e]

(***************************************************************************)
(* The filesystem the run sees (it does not change during a run).          *)
(*   /ws/a        lib.rs, sub/ (m.rs), link (a symlink)                    *)
(*   /ws/b        lib.rs, locked.rs (permission denied), bin.dat (not      *)
(*                UTF-8), z.rs                                             *)
(*   /ws/c        lib.rs, priv/ (a directory that cannot be listed,        *)
(*                holding k.rs)                                            *)
(*   /ws/missing  does not exist                                           *)
(***************************************************************************)
DirNode(p, names, e) == [path |-> p, kind |-> "dir", names |-> names, data |-> "", err |-> e]
FileNode(p, d, e) == [path |-> p, kind |-> "file", names |-> <<>>, data |-> d, err |-> e]
LinkNode(p) == [path |-> p, kind |-> "symlink", names |-> <<>>, data |-> "", err |-> ""]

FSNodes ==
    { DirNode(<<"/">>, <<"ws">>, ""),
      DirNode(<<"/", "ws">>, <<"a", "b", "c">>, ""),
      DirNode(<<"/", "ws", "a">>, <<"lib.rs", "sub", "link">>, ""),
      FileNode(<<"/", "ws", "a", "lib.rs">>, "a_lib", ""),
      DirNode(<<"/", "ws", "a", "sub">>, <<"m.rs">>, ""),
      FileNode(<<"/", "ws", "a", "sub", "m.rs">>, "a_m", ""),
      LinkNode(<<"/", "ws", "a", "link">>),
      DirNode(<<"/", "ws", "b">>, <<"lib.rs", "locked.rs", "bin.dat", "z.rs">>, ""),
      FileNode(<<"/", "ws", "b", "lib.rs">>, "b_lib", ""),
      FileNode(<<"/", "ws", "b", "locked.rs">>, "", "PermissionDenied"),
      FileNode(<<"/", "ws", "b", "bin.dat">>, "", "InvalidData"),
      FileNode(<<"/", "ws", "b", "z.rs">>, "b_z", ""),
      DirNode(<<"/", "ws", "c">>, <<"lib.rs", "priv">>, ""),
      FileNode(<<"/", "ws", "c", "lib.rs">>, "c_lib", ""),
      DirNode(<<"/", "ws", "c", "priv">>, <<"k.rs">>, "PermissionDenied"),
      FileNode(<<"/", "ws", "c", "priv", "k.rs">>, "c_k", "") }

Exists(p) == \E n \in FSNodes : n.path = p
Node(p) == CHOOSE n \in FSNodes : n.path = p

\* Path::parent: None for the empty path and for a path that ends in the root.
Parent(p) ==
    IF p = <<>> \/ p[Len(p)] = "/" THEN None
    ELSE Some(SubSeq(p, 1, Len(p) - 1))

\* walkdir: the entries under a root in encounter order, the root first; each
\* entry is Ok(DirEntry) or Err.
OkEntry(n) == [ok |-> TRUE, path |-> n.path, ftype |-> n.kind]
ErrEntry(p) == [ok |-> FALSE, path |-> p, ftype |-> "none"]

RECURSIVE Walk(_)
RECURSIVE WalkChildren(_, _)
Walk(p) ==
    LET n == Node(p) IN
    IF n.kind = "dir"
    THEN IF n.err # "" THEN <<OkEntry(n), ErrEntry(p)>>
         ELSE <<OkEntry(n)>> \o WalkChildren(p, n.names)
    ELSE <<OkEntry(n)>>
WalkChildren(p, names) ==
    IF names = <<>> THEN <<>>
    ELSE Walk(Append(p, Head(names))) \o WalkChildren(p, Tail(names))

WalkDir(root) == IF Exists(root) THEN Walk(root) ELSE <<ErrEntry(root)>>

\* std::fs::read_to_string
read_to_string(p) ==
    IF ~Exists(p) THEN ReadErr("NotFound")
    ELSE LET n == Node(p) IN
         IF n.kind = "dir" THEN ReadErr("IsADirectory")
         ELSE IF n.err # "" THEN ReadErr(n.err)
         ELSE ReadOk(n.data)


(***************************************************************************)
(* The document: JsonProject.crates.  Only the fields the loader or the    *)
(* deserializer can act on are kept: display_name, root_module, deps and   *)
(* source.  In the document on disk a dep's crate index is any integer.    *)
(***************************************************************************)
Dep(i, n) == [crate |-> i, name |-> n]
Source(inc, exc) == [include_dirs |-> inc, exclude_dirs |-> exc]
Crate(dn, rm, deps, src) ==
    [display_name |-> dn, root_module |-> rm, deps |-> deps, source |-> src]

WsA == <<"/", "ws", "a">>
WsASub == <<"/", "ws", "a", "sub">>

CrateChoices ==
    { Crate(Some("a"), <<"/", "ws", "a", "lib.rs">>, <<>>, None),
      Crate(Some("a"), <<"/", "ws", "a", "lib.rs">>, <<Dep(0, "b")>>,
            Some(Source({WsA}, {WsASub}))),
      Crate(Some("s"), <<"/", "ws", "a", "sub", "m.rs">>, <<>>, None),
      Crate(Some("b"), <<"/", "ws", "b", "lib.rs">>, <<Dep(5, "x")>>, None),
      Crate(Some("b"), <<"/", "ws", "c", "lib.rs">>, <<>>, None),
      Crate(Some("m"), <<"/", "ws", "missing", "lib.rs">>, <<>>, None),
      Crate(None, <<"/", "ws", "a", "lib.rs">>, <<>>, None),
      Crate(Some("r"), <<"/">>, <<>>, None),
      Crate(None, <<"/">>, <<>>, None),
      Crate(Some("a"), <<"/", "ws", "a", "lib.rs">>, <<Dep(-1, "y")>>, None) }

CrateLists == UNION { [1..n -> CrateChoices] : n \in 0..MaxCrates }

\* The file named on the command line: absent, or holding a crate list.
Documents ==
    { [exists |-> FALSE, crates |-> <<>>] }
    \cup { [exists |-> TRUE, crates |-> cs] : cs \in CrateLists }

\* cargo metadata: the targets of all packages, flattened; a target always has
\* a name.
Target(n, sp) == [name |-> n, src_path |-> sp]

TargetChoices ==
    { Target("a", <<"/", "ws", "a", "lib.rs">>),
      Target("b", <<"/", "ws", "b", "lib.rs">>),
      Target("m", <<"/", "ws", "missing", "lib.rs">>),
      Target("r", <<"/">>) }

TargetLists == UNION { [1..n -> TargetChoices] : n \in 0..MaxCrates }

\* What `cargo metadata` answers for the manifest named on the command line:
\* a failure (exists is FALSE), or the targets.
Metadatas ==
    { [exists |-> FALSE, crates |-> <<>>] }
    \cup { [exists |-> TRUE, crates |-> ts] : ts \in TargetLists }

\* A JSON integer fits usize when it is not negative (the upper limit, 2^64 - 1,
\* is above every index a document of the model holds).
IsUsize(i) == i >= 0

\* A deserializer that validates the index against the crate list.
DepInRange(crates, d) == IsUsize(d.crate) /\ d.crate < Len(crates)

\* serde's derived Deserialize for Dep: `crate` must be a usize; nothing
\* relates it to the number of crates.
DepOk(crates, d) == IsUsize(d.crate)

\* serde_json::from_str::<JsonProject>
Deserialize(rawCrates) ==
    IF \A i \in 1..Len(rawCrates) :
          \A j \in 1..Len(rawCrates[i].deps) : DepOk(rawCrates, rawCrates[i].deps[j])
    THEN [tag |-> "Ok", val |-> rawCrates]
    ELSE [tag |-> "Err", val |-> <<>>]

(***************************************************************************)
(* The pipeline of handle_project_json.                                    *)
(***************************************************************************)
\* The filter_map closure: the parent is taken first; only under Some(path)
\* is display_name unwrapped, and unwrap panics on None.
ResolveRoot(krate) ==
    LET root == Parent(krate.root_module) IN
    IF root = None THEN [kind |-> "none", name |-> "", dir |-> <<>>]
    ELSE IF krate.display_name = None
         THEN [kind |-> "panic", name |-> "", dir |-> <<>>]
         ELSE [kind |-> "some", name |-> krate.display_name[1], dir |-> root[1]]

\* The filter_map closure of handle_cargo: a target has a name, nothing is
\* unwrapped.
ResolveTarget(target) ==
    LET root == Parent(target.src_path) IN
    IF root = None THEN [kind |-> "none", name |-> "", dir |-> <<>>]
    ELSE [kind |-> "some", name |-> target.name, dir |-> root[1]]

Resolve(c, item) == IF c = "json" THEN ResolveRoot(item) ELSE ResolveTarget(item)

\* FilterMap::next from position i: skips the crates the closure maps to None.
RECURSIVE NextItem(_, _, _)
NextItem(c, cs, i) ==
    IF i > Len(cs) THEN [kind |-> "end", idx |-> i, name |-> "", dir |-> <<>>]
    ELSE LET r == Resolve(c, cs[i]) IN
         IF r.kind = "none" THEN NextItem(c, cs, i + 1)
         ELSE [kind |-> r.kind, idx |-> i, name |-> r.name, dir |-> r.dir]

\* A walk whose errors are kept and reach the read of their path.
FilesWalkErrFatal(entries) == SelectSeq(entries, LAMBDA e : ~e.ok \/ e.ftype = "file")

\* A walk without the is_file filter.
FilesAndDirs(entries) == SelectSeq(entries, LAMBDA e : e.ok)

\* The walk's entries that reach the read: errors dropped, regular files kept.
Files(entries) == SelectSeq(entries, LAMBDA e : e.ok /\ e.ftype = "file")

IsUnder(dir, p) == Len(dir) <= Len(p) /\ SubSeq(p, 1, Len(dir)) = dir

\* A loader that honors the crate's `source`: a file belongs to the crate when
\* it is under an include directory and under no exclude directory.
SourceFilesHonoringSource(krate) ==
    LET all == Files(WalkDir(Parent(krate.root_module)[1])) IN
    IF krate.source = None THEN all
    ELSE SelectSeq(all, LAMBDA e :
            /\ \E d \in krate.source[1].include_dirs : IsUnder(d, e.path)
            /\ ~\E d \in krate.source[1].exclude_dirs : IsUnder(d, e.path))

\* The files read for a crate: all those under the parent of its root_module.
SourceFiles(krate) == Files(WalkDir(Parent(krate.root_module)[1]))

\* The files read for a cargo target: all those under the parent of src_path.
TargetFiles(target) == Files(WalkDir(Parent(target.src_path)[1]))

UnitFiles(c, item) == IF c = "json" THEN SourceFiles(item) ELSE TargetFiles(item)

\* A collect that skips a file it cannot read.
TryCollectSkip(acc, r) ==
    IF r.tag = "Ok" THEN [brk |-> FALSE, acc |-> Append(acc, r.val), err |-> ""]
    ELSE [brk |-> FALSE, acc |-> acc, err |-> ""]

\* One step of collect::<Result<Vec<String>, io::Error>>: an Ok is pushed, the
\* first Err ends the iteration and is the result.
TryCollect(acc, r) ==
    IF r.tag = "Ok" THEN [brk |-> FALSE, acc |-> Append(acc, r.val), err |-> ""]
    ELSE [brk |-> TRUE, acc |-> <<>>, err |-> r.err]

EmptyMap == [n \in {} |-> Ok(<<>>)]

\* An insert that merges into the value already stored under the key.
InsertMerge(m, k, v) ==
    [n \in (DOMAIN m) \cup {k} |->
        IF n # k THEN m[n]
        ELSE IF k \notin DOMAIN m THEN v
        ELSE IF m[k].tag = "Ok" /\ v.tag = "Ok" THEN Ok(m[k].val \o v.val)
        ELSE IF m[k].tag = "Err" THEN m[k] ELSE v]

\* HashMap::insert: the value replaces the one stored under an equal key.
Insert(m, k, v) == [n \in (DOMAIN m) \cup {k} |-> IF n = k THEN v ELSE m[n]]

\* A collect into Result<HashMap, _>: the first Err pair ends it.
RECURSIVE ExtendFailFast(_, _)
ExtendFailFast(m, items) ==
    IF items = <<>> THEN m
    ELSE IF items[1].res.tag = "Err" THEN EmptyMap
    ELSE ExtendFailFast([n \in (DOMAIN m) \cup {items[1].name} |->
                            IF n = items[1].name THEN items[1].res ELSE m[n]],
                        Tail(items))

\* HashMap::extend with a vector of pairs, in the vector's order.
RECURSIVE Extend(_, _)
Extend(m, items) ==
    IF items = <<>> THEN m
    ELSE Extend(Insert(m, items[1].name, items[1].res), Tail(items))

VARIABLES
    cmd,        \* the subcommand: "json" or "cargo"
    raw,        \* the document on disk, or cargo's answer
    pc,         \* main thread: "start", "par", "done", "err", "panic"
    crates,     \* project.crates once deserialized, or the metadata's targets
    next,       \* position of the crate (target) iterator, 1-based
    poisoned,   \* the bridge's iterator mutex is poisoned by a panic
    wpc,        \* per pool thread: "idle", "map", "exit"
    cur,        \* per pool thread: the unit being loaded
    folded,     \* per pool thread: the (name, result) pairs it produced
    projects,   \* the collected map
    emitted     \* the pairs the filter_map iterator has yielded so far

vars == <<cmd, raw, pc, crates, next, poisoned, wpc, cur, folded, projects, emitted>>

NoUnit == [name |-> "", dir |-> <<>>, files |-> <<>>, acc |-> <<>>]

Init ==
    /\ \/ cmd = "json" /\ raw \in Documents
       \/ cmd = "cargo" /\ raw \in Metadatas
    /\ pc = "start"
    /\ crates = <<>>
    /\ next = 1
    /\ poisoned = FALSE
    /\ wpc = [t \in Threads |-> "idle"]
    /\ cur = [t \in Threads |-> NoUnit]
    /\ folded = [t \in Threads |-> <<>>]
    /\ projects = EmptyMap
    /\ emitted = <<>>

\* handle_project_json: read_to_string(path)? and serde_json::from_str(&s)?
LoadDocument ==
    /\ pc = "start"
    /\ cmd = "json"
    /\ LET d == Deserialize(raw.crates) IN
       IF raw.exists /\ d.tag = "Ok"
       THEN pc' = "par" /\ crates' = d.val
       ELSE pc' = "err" /\ crates' = crates
    /\ UNCHANGED <<cmd, raw, next, poisoned, wpc, cur, folded, projects, emitted>>

\* handle_cargo: cmd.exec()?
RunMetadata ==
    /\ pc = "start"
    /\ cmd = "cargo"
    /\ IF raw.exists
       THEN pc' = "par" /\ crates' = raw.crates
       ELSE pc' = "err" /\ crates' = crates
    /\ UNCHANGED <<cmd, raw, next, poisoned, wpc, cur, folded, projects, emitted>>

\* A pool thread takes the iterator's lock and asks for the next pair.
Pull(t) ==
    /\ pc = "par"
    /\ wpc[t] = "idle"
    /\ IF poisoned
       THEN /\ wpc' = [wpc EXCEPT ![t] = "exit"]
            /\ UNCHANGED <<next, poisoned, cur, emitted>>
       ELSE LET it == NextItem(cmd, crates, next) IN
            /\ next' = IF it.kind = "end" THEN it.idx ELSE it.idx + 1
            /\ poisoned' = (it.kind = "panic")
            /\ IF it.kind = "some"
               THEN /\ wpc' = [wpc EXCEPT ![t] = "map"]
                    /\ cur' = [cur EXCEPT ![t] =
                                 [name |-> it.name,
                                  dir |-> it.dir,
                                  files |-> UnitFiles(cmd, crates[it.idx]),
                                  acc |-> <<>>]]
                    /\ emitted' = Append(emitted, [name |-> it.name, dir |-> it.dir])
               ELSE /\ wpc' = [wpc EXCEPT ![t] = "exit"]
                    /\ UNCHANGED <<cur, emitted>>
    /\ UNCHANGED <<cmd, raw, pc, crates, folded, projects>>

\* The map closure reads the next file of its unit.
ReadFile(t) ==
    /\ pc = "par"
    /\ wpc[t] = "map"
    /\ cur[t].files # <<>>
    /\ LET o == TryCollect(cur[t].acc, read_to_string(Head(cur[t].files).path)) IN
       IF o.brk
       THEN /\ folded' = [folded EXCEPT ![t] =
                            Append(@, [name |-> cur[t].name, res |-> Err(o.err)])]
            /\ cur' = [cur EXCEPT ![t] = NoUnit]
            /\ wpc' = [wpc EXCEPT ![t] = "idle"]
       ELSE /\ cur' = [cur EXCEPT ![t].acc = o.acc, ![t].files = Tail(@)]
            /\ UNCHANGED <<folded, wpc>>
    /\ UNCHANGED <<cmd, raw, pc, crates, next, poisoned, projects, emitted>>

\* The walk is exhausted: the unit's result is Ok of what was read.
FinishUnit(t) ==
    /\ pc = "par"
    /\ wpc[t] = "map"
    /\ cur[t].files = <<>>
    /\ folded' = [folded EXCEPT ![t] =
                    Append(@, [name |-> cur[t].name, res |-> Ok(cur[t].acc)])]
    /\ cur' = [cur EXCEPT ![t] = NoUnit]
    /\ wpc' = [wpc EXCEPT ![t] = "idle"]
    /\ UNCHANGED <<cmd, raw, pc, crates, next, poisoned, projects, emitted>>

RECURSIVE Concat(_, _)
Concat(f, t) == IF t > NumThreads THEN <<>> ELSE f[t] \o Concat(f, t + 1)

\* collect(): the threads' vectors, in split order, extend the map; Ok(()).
Collect ==
    /\ pc = "par"
    /\ \A t \in Threads : wpc[t] = "exit"
    /\ ~poisoned
    /\ projects' = Extend(EmptyMap, Concat(folded, 1))
    /\ pc' = "done"
    /\ UNCHANGED <<cmd, raw, crates, next, poisoned, wpc, cur, folded, emitted>>

\* The panic of the closure is resumed on the calling thread once the pool
\* threads have stopped.
Unwind ==
    /\ pc = "par"
    /\ \A t \in Threads : wpc[t] = "exit"
    /\ poisoned
    /\ pc' = "panic"
    /\ UNCHANGED <<cmd, raw, crates, next, poisoned, wpc, cur, folded, projects, emitted>>

Next ==
    \/ LoadDocument
    \/ RunMetadata
    \/ \E t \in Threads : Pull(t)
    \/ \E t \in Threads : ReadFile(t)
    \/ \E t \in Threads : FinishUnit(t)
    \/ Collect
    \/ Unwind

Spec == Init /\ [][Next]_vars

\* The process's exit status.
ExitCode == CASE pc = "done" -> 0 [] pc = "err" -> 1 [] pc = "panic" -> 101 [] OTHER -> -1

TypeOK ==
    /\ pc \in {"start", "par", "done", "err", "panic"}
    /\ next \in 1..(Len(crates) + 1)
    /\ \A t \in Threads : wpc[t] \in {"idle", "map", "exit"}


(***************************************************************************)
(* Vocabulary of the properties.                                           *)
(***************************************************************************)
RootFile(c, item) == IF c = "json" THEN item.root_module ELSE item.src_path
HasName(c, item) == c = "cargo" \/ item.display_name # None
NameOf(c, item) == IF c = "json" THEN item.display_name[1] ELSE item.name

\* A unit: a crate (target) with a name whose root file has a parent.
IsUnit(c, item) == HasName(c, item) /\ Parent(RootFile(c, item)) # None
UnitIdx == { i \in 1..Len(crates) : IsUnit(cmd, crates[i]) }
UnitName(i) == NameOf(cmd, crates[i])
UnitDir(i) == Parent(RootFile(cmd, crates[i]))[1]
SameName(i) == { j \in UnitIdx : UnitName(j) = UnitName(i) }
UniqueName(i) == SameName(i) = {i}

\* The regular files of the filesystem at or below a directory.
RegularFilesUnder(dir) == { n \in FSNodes : n.kind = "file" /\ IsUnder(dir, n.path) }

\* The directory exists and everything at or below it can be listed and read.
FullyReadable(dir) ==
    /\ Exists(dir)
    /\ \A n \in FSNodes : IsUnder(dir, n.path) => n.err = ""

\* The regular files under a directory in the enumerator's encounter order.
FilesInOrder(dir) == SelectSeq(WalkDir(dir), LAMBDA e : e.ok /\ e.ftype = "file")

\* What loading one directory on its own yields: the first failure in
\* encounter order, or the contents of every file.
LoadAlone(dir) ==
    LET fs == FilesInOrder(dir)
        bad == { k \in 1..Len(fs) : read_to_string(fs[k].path).tag = "Err" }
    IN  IF bad = {}
        THEN Ok([k \in 1..Len(fs) |-> read_to_string(fs[k].path).val])
        ELSE LET first == CHOOSE k \in bad : \A k2 \in bad : k <= k2
             IN  Err(read_to_string(fs[first].path).err)

UnitNames == { UnitName(i) : i \in UnitIdx }


(***************************************************************************)
(* Properties.                                                             *)
(***************************************************************************)

C2_NamelessCrateDropped ==
    (/\ cmd = "json"
     /\ pc \in {"par", "done", "panic"}
     /\ \E i \in 1..Len(crates) : crates[i].display_name = None)
        => /\ ~poisoned
           /\ pc # "panic"
           /\ pc = "done" => UnitNames \subseteq DOMAIN projects

\* C3: failure isolation.  When the operation ends, the mapping's keys are the
\* units' names, every unit that shares its name with no other has under its
\* name exactly what loading its root alone yields, whatever the other units
\* did and however the threads interleaved; and a failed read never poisons
\* the pool: only a crate without a name does.
C3_FailureIsolation ==
    /\ pc = "done" =>
          /\ DOMAIN projects = UnitNames
          /\ \A i \in UnitIdx :
                UniqueName(i) => projects[UnitName(i)] = LoadAlone(UnitDir(i))
    /\ poisoned => /\ cmd = "json"
                   /\ next > 1
                   /\ crates[next - 1].display_name = None

C3_Witness ==
    /\ pc = "done"
    /\ \E i, j \in UnitIdx :
          /\ UnitName(i) # UnitName(j)
          /\ projects[UnitName(i)].tag = "Err"
          /\ projects[UnitName(j)].tag = "Ok"
          /\ Len(projects[UnitName(j)].val) > 0

\* C4: N units with pairwise distinct names whose roots exist and are readable
\* throughout give a mapping of exactly N entries, each a success whose length
\* is the number of regular files under the unit's root.
C4_AllReadable ==
    (/\ pc = "done"
     /\ \A i \in UnitIdx : UniqueName(i) /\ FullyReadable(UnitDir(i)))
        => /\ Cardinality(DOMAIN projects) = Cardinality(UnitIdx)
           /\ \A i \in UnitIdx :
                 /\ UnitName(i) \in DOMAIN projects
                 /\ projects[UnitName(i)].tag = "Ok"
                 /\ Len(projects[UnitName(i)].val)
                        = Cardinality(RegularFilesUnder(UnitDir(i)))

C4_Witness ==
    /\ pc = "done"
    /\ Cardinality(UnitIdx) >= 2
    /\ \A i \in UnitIdx : UniqueName(i) /\ FullyReadable(UnitDir(i))
    /\ \E i \in UnitIdx : Len(projects[UnitName(i)].val) >= 2
    /\ Cardinality(DOMAIN projects) = Cardinality(UnitIdx)

C6_AlwaysReturnsOk ==
    (cmd = "json" /\ pc \in {"done", "panic"}) => ExitCode = 0

\* The crates of the document that have a display_name and whose root_module
\* has a parent, as (name, parent) pairs in document order.
RECURSIVE ExpectedPairs(_)
ExpectedPairs(cs) ==
    IF cs = <<>> THEN <<>>
    ELSE (IF cs[1].display_name # None /\ Parent(cs[1].root_module) # None
          THEN <<[name |-> cs[1].display_name[1], dir |-> Parent(cs[1].root_module)[1]]>>
          ELSE <<>>) \o ExpectedPairs(Tail(cs))

\* C7 as stated: resolution emits exactly the pairs of the crates that have
\* both a display_name and a parent; the crates missing either are excluded,
\* their number being total crates minus resolved pairs.
C7_ResolutionExact ==
    (cmd = "json" /\ pc \in {"done", "panic"})
        => /\ emitted = ExpectedPairs(crates)
           /\ Len(crates) - Len(emitted)
                 = Cardinality({ i \in 1..Len(crates) :
                                   \/ crates[i].display_name = None
                                   \/ Parent(crates[i].root_module) = None })

\* C8: per-unit fail-fast.  While a unit is being read, what is accumulated is
\* the contents of the files before the next one in encounter order, all of
\* them read; the result stored for a unit is a success only
\* when every file under its root was read, and then holds all contents in
\* encounter order; otherwise it is the failure of the first unreadable file
\* in that order.
C8_FailFast ==
    /\ \A t \in Threads :
          wpc[t] = "map" =>
              LET fs == FilesInOrder(cur[t].dir)
                  n == Len(cur[t].acc)
              IN  /\ n + Len(cur[t].files) = Len(fs)
                  /\ \A k \in 1..n : read_to_string(fs[k].path) = ReadOk(cur[t].acc[k])
    /\ pc = "done" =>
          \A i \in UnitIdx :
              UniqueName(i) =>
                  LET fs == FilesInOrder(UnitDir(i))
                      r == projects[UnitName(i)]
                      failing == { k \in 1..Len(fs) : read_to_string(fs[k].path).tag = "Err" }
                  IN  /\ r.tag = "Ok" =>
                            /\ failing = {}
                            /\ Len(r.val) = Len(fs)
                            /\ \A k \in 1..Len(fs) : read_to_string(fs[k].path) = ReadOk(r.val[k])
                      /\ r.tag = "Err" =>
                            \E k \in failing :
                                /\ \A k2 \in failing : k <= k2
                                /\ r.err = read_to_string(fs[k].path).err
                      /\ failing # {} => r.tag = "Err"

\* A unit with a readable file, then two unreadable ones failing differently,
\* then a readable one: the first failure is the result.
C8_Witness ==
    /\ pc = "done"
    /\ \E i \in UnitIdx :
          LET fs == FilesInOrder(UnitDir(i)) IN
          /\ UniqueName(i)
          /\ Len(fs) = 4
          /\ read_to_string(fs[1].path).tag = "Ok"
          /\ read_to_string(fs[2].path).err = "PermissionDenied"
          /\ read_to_string(fs[3].path).err = "InvalidData"
          /\ read_to_string(fs[4].path).tag = "Ok"
          /\ projects[UnitName(i)] = Err("PermissionDenied")

\* C9: the result for a crate does not depend on its `source`: it is what the
\* same crate with `source` removed yields, everything reachable from the
\* parent of root_module, the files under an exclude directory included.
C9_SourceIgnored ==
    (cmd = "json" /\ pc = "done") =>
        \A i \in UnitIdx :
            (UniqueName(i) /\ crates[i].source # None) =>
                LET bare == [crates[i] EXCEPT !.source = None]
                    dir == Parent(bare.root_module)[1]
                    r == projects[UnitName(i)]
                IN  /\ r = LoadAlone(dir)
                    /\ FullyReadable(dir) =>
                          \A f \in RegularFilesUnder(dir) :
                              \E k \in 1..Len(r.val) : r.val[k] = f.data

C9_Witness ==
    /\ cmd = "json"
    /\ pc = "done"
    /\ \E i \in UnitIdx :
          /\ UniqueName(i)
          /\ crates[i].source # None
          /\ \E f \in RegularFilesUnder(UnitDir(i)) :
                /\ \E d \in crates[i].source[1].exclude_dirs : IsUnder(d, f.path)
                /\ \E k \in 1..Len(projects[UnitName(i)].val) :
                      projects[UnitName(i)].val[k] = f.data

HasOutOfRangeDep(cs) ==
    \E i \in 1..Len(cs) : \E j \in 1..Len(cs[i].deps) : cs[i].deps[j].crate >= Len(cs)

HasNegativeDep(cs) ==
    \E i \in 1..Len(cs) : \E j \in 1..Len(cs[i].deps) : cs[i].deps[j].crate < 0

\* C10: a document that is readable and well formed except that some dep's
\* crate index is out of range deserializes: the operation does not end with
\* a document error and the project holds the document's crates, deps
\* untouched.
C10_OutOfRangeDepParses ==
    (/\ cmd = "json"
     /\ pc # "start"
     /\ raw.exists
     /\ HasOutOfRangeDep(raw.crates)
     /\ ~HasNegativeDep(raw.crates))
        => pc # "err" /\ crates = raw.crates

C10_Witness ==
    /\ cmd = "json"
    /\ pc = "done"
    /\ HasOutOfRangeDep(crates)
    /\ \E i \in 1..Len(crates) : \E j \in 1..Len(crates[i].deps) : crates[i].deps[j].crate = 5

====
